---- MODULE Spec2Model ----
(***************************************************************************)
(* The signaling relay of src/main.ts: the room registry, the Room class   *)
(* (one server/host connection, a map of client/guest connections) and     *)
(* the message routing between them.                                       *)
(*                                                                         *)
(* A WebSocket is the abstract channel the relay consumes: the relay calls *)
(* send(data) and close() on it and the platform dispatches message and    *)
(* close events to the handlers the relay assigned to onmessage / onclose. *)
(* JavaScript runs every handler to completion, so each handler is one     *)
(* atomic action; ev is the event it handled and calls the send and close  *)
(* calls it made, per socket and in order.                                 *)
(*                                                                         *)
(* What the platform does with a call (a send on a socket that is not open *)
(* is not delivered) is outside the model: a message is "received" by a    *)
(* peer when the relay calls send on its socket.  A socket delivers        *)
(* message events until its close event, which comes once; close() called  *)
(* by the relay does not stop the messages already on their way.           *)
(***************************************************************************)
EXTENDS Integers, Sequences, FiniteSets, TLC

\* Bounds of the model.
MaxRooms == 2      \* POST /rooms requests served
MaxConns == 3      \* sockets Deno.upgradeWebSocket creates
MaxObjects == 5    \* rooms and sockets together

\* null (serverConn) and "no such object" for references.
NoConn == 0
\* a clientID value that is present in a message but falsy in JavaScript.
Falsy == 0

Conns == 1..MaxConns
\* crypto.randomUUID(): no two calls return the same value.  The value of
\* the call made for the k-th room is k, that of the call made for socket
\* ws is MaxRooms + ws.
RoomUUID(k) == k
ClientUUID(ws) == MaxRooms + ws
\* a well-formed identifier that no randomUUID call returns.
UnknownId == MaxRooms + MaxConns + 1

VARIABLES
  rooms,      \* const rooms = new Map<string, Room>(): room id -> Room object
  heap,       \* the Room objects, by reference: [id, serverConn, clientConns]
  created,    \* the ids returned by the create-room responses, in order
  nconns,     \* number of sockets created; they are numbered as created
  handlers,   \* socket -> the closures assigned to ws.onmessage / ws.onclose
  calls,      \* socket -> the send/close calls the last step made on it, in order
  closeFired, \* socket -> its close event has been dispatched
  ev          \* the event handled by the last step

vars == <<rooms, heap, created, nconns, handlers, calls,
          closeFired, ev>>

----------------------------------------------------------------------------
(* JSON values and texts *)

\* Objects are functions from their keys to values; null stands for the
\* parsable texts that are no objects.
JsonNull == [t |-> "null"]
Obj(o) == [t |-> "obj", o |-> o]

\* The error object of handleServerConn.
ErrorObj == Obj([type |-> "error", data |-> "server conn already exists"])

\* A text on the wire: unparsable, or the text of a JSON value, written
\* either the way JSON.stringify writes it or with other whitespace.
Garbage == [kind |-> "garbage"]
Text(v, compact) == [kind |-> "json", val |-> v, compact |-> compact]

\* JSON.parse: throws on an unparsable text.
JSONparse(data) ==
  IF data.kind = "json" THEN [ok |-> TRUE, val |-> data.val]
                        ELSE [ok |-> FALSE]

\* JSON.stringify: always the compact text.
JSONstringify(v) == Text(v, TRUE)

\* message.clientID: a TypeError on null, undefined when the property is
\* missing, else its value.
HasClientID(v) == v.t = "obj" /\ "clientID" \in DOMAIN v.o

\* Faulty variant: { clientID: clientId, ...message }, where a clientID the guest
\* wrote wins over the relay's.
Spread_GuestWins(v, clientId) ==
  IF HasClientID(v) THEN v ELSE
  IF v.t = "obj"
    THEN Obj([k \in DOMAIN v.o \cup {"clientID"} |->
                IF k = "clientID" THEN clientId ELSE v.o[k]])
    ELSE Obj([clientID |-> clientId])

\* { ...message, clientID: clientId }
Spread(v, clientId) ==
  IF v.t = "obj"
    THEN Obj([k \in DOMAIN v.o \cup {"clientID"} |->
                IF k = "clientID" THEN clientId ELSE v.o[k]])
    ELSE Obj([clientID |-> clientId])

----------------------------------------------------------------------------
(* Sockets *)

NoHandlers == [kind |-> "none", room |-> 0, clientId |-> 0]
ServerHandlers(r) == [kind |-> "server", room |-> r, clientId |-> 0]
ClientHandlers(r, id) == [kind |-> "client", room |-> r, clientId |-> id]

SendCall(data) == [op |-> "send", data |-> data]
CloseCall == [op |-> "close", data |-> Garbage]

\* A handler starts with no call made.
NoCalls == [c \in Conns |-> <<>>]

\* ws.send(data) / ws.close() on socket ws, after the calls cs.
WsSend(cs, ws, data) == [cs EXCEPT ![ws] = Append(@, SendCall(data))]
WsClose(cs, ws) == [cs EXCEPT ![ws] = Append(@, CloseCall)]

NoEvent == [kind |-> "none", conn |-> 0, roomId |-> 0, role |-> "",
            data |-> Garbage, status |-> 0]
Event(kind, conn, roomId, role, data, status) ==
  [kind |-> kind, conn |-> conn, roomId |-> roomId, role |-> role,
   data |-> data, status |-> status]

----------------------------------------------------------------------------
(* Room *)

\* new Room(id)
NewRoom(id) == [id |-> id, serverConn |-> NoConn, clientConns |-> <<>>]

\* this.clientConns.set(clientId, ws)
MapSet(m, k, v) == [x \in DOMAIN m \cup {k} |-> IF x = k THEN v ELSE m[x]]
\* this.clientConns.delete(clientId)
MapDelete(m, k) == [x \in DOMAIN m \ {k} |-> m[x]]

Init ==
  /\ rooms = <<>>
  /\ heap = <<>>
  /\ created = <<>>
  /\ nconns = 0
  /\ handlers = [c \in Conns |-> NoHandlers]
  /\ calls = NoCalls
  /\ closeFired = [c \in Conns |-> FALSE]
  /\ ev = NoEvent

\* Faulty variant: the room is stored under the first characters of its id, the
\* ones the log lines print, which two ids share.
handleCreateRoom_ShortId ==
  /\ Len(created) < MaxRooms
  /\ Len(created) + nconns < MaxObjects
  /\ LET roomId == RoomUUID(1)
         room == Len(heap) + 1
     IN /\ heap' = Append(heap, NewRoom(roomId))
        /\ rooms' = MapSet(rooms, roomId, room)
        /\ created' = Append(created, roomId)
        /\ ev' = Event("createRoom", 0, roomId, "", Garbage, 200)
  /\ calls' = NoCalls
  /\ UNCHANGED <<nconns, handlers, closeFired>>

\* POST /rooms
handleCreateRoom ==
  /\ Len(created) < MaxRooms
  /\ Len(created) + nconns < MaxObjects
  /\ LET roomId == RoomUUID(Len(created) + 1)
         room == Len(heap) + 1
     IN /\ heap' = Append(heap, NewRoom(roomId))
        /\ rooms' = MapSet(rooms, roomId, room)
        /\ created' = Append(created, roomId)
        /\ ev' = Event("createRoom", 0, roomId, "", Garbage, 200)
  /\ calls' = NoCalls
  /\ UNCHANGED <<nconns, handlers, closeFired>>

\* ws.onmessage / ws.onclose of handleServerConn are assigned together, and
\* so are those of handleClientConn: one handlers record per socket.

\* Faulty variant: the message goes to every guest of the room.
sendMessageToClient_Broadcast(room, clientId, message) ==
  IF clientId \notin DOMAIN heap[room].clientConns
    THEN calls' = NoCalls
    ELSE calls' = [c \in Conns |->
                     IF \E k \in DOMAIN heap[room].clientConns :
                          heap[room].clientConns[k] = c
                       THEN <<SendCall(JSONstringify(message))>>
                       ELSE <<>>]

\* Faulty variant: a message for an id that is no key goes to every guest of
\* the room.
sendMessageToClient_Fallback(room, clientId, message) ==
  IF clientId \notin DOMAIN heap[room].clientConns
    THEN calls' = [c \in Conns |->
                     IF \E k \in DOMAIN heap[room].clientConns :
                          heap[room].clientConns[k] = c
                       THEN <<SendCall(JSONstringify(message))>>
                       ELSE <<>>]
    ELSE calls' = WsSend(NoCalls, heap[room].clientConns[clientId],
                         JSONstringify(message))

\* Room.sendMessageToClient(clientId, message)
sendMessageToClient(room, clientId, message) ==
  IF clientId \notin DOMAIN heap[room].clientConns
    THEN calls' = NoCalls
    ELSE calls' = WsSend(NoCalls, heap[room].clientConns[clientId],
                         JSONstringify(message))

\* Faulty variant: with no host, the guest is told so.
sendMessageToServer_Nack(room, clientId, message) ==
  IF heap[room].serverConn = NoConn
    THEN IF clientId \in DOMAIN heap[room].clientConns
           THEN calls' = WsSend(NoCalls, heap[room].clientConns[clientId],
                                JSONstringify(ErrorObj))
           ELSE calls' = NoCalls
    ELSE calls' = WsSend(NoCalls, heap[room].serverConn,
                         JSONstringify(Spread(message, clientId)))

\* Room.sendMessageToServer(clientId, message)
sendMessageToServer(room, clientId, message) ==
  IF heap[room].serverConn = NoConn
    THEN calls' = NoCalls
    ELSE calls' = WsSend(NoCalls, heap[room].serverConn,
                         JSONstringify(Spread(message, clientId)))

\* Faulty variant: a message without clientID goes to every guest of the room.
serverOnMessage_NoTargetToAll(room, data) ==
  LET p == JSONparse(data) IN
  IF ~p.ok THEN calls' = NoCalls
  ELSE IF p.val.t = "null" THEN calls' = NoCalls
  ELSE IF HasClientID(p.val) /\ p.val.o.clientID # Falsy
    THEN sendMessageToClient(room, p.val.o.clientID, p.val)
    ELSE calls' = [c \in Conns |->
                     IF \E k \in DOMAIN heap[room].clientConns :
                          heap[room].clientConns[k] = c
                       THEN <<SendCall(JSONstringify(p.val))>>
                       ELSE <<>>]

\* ws.onmessage of handleServerConn; the catch block only logs.
serverOnMessage(room, data) ==
  LET p == JSONparse(data) IN
  IF ~p.ok THEN calls' = NoCalls
  ELSE IF p.val.t = "null" THEN calls' = NoCalls
  ELSE IF HasClientID(p.val) /\ p.val.o.clientID # Falsy
    THEN sendMessageToClient(room, p.val.o.clientID, p.val)
    ELSE calls' = NoCalls

\* Faulty variant: the host slot is cleared and the guests are left as they are.
serverOnClose_NoEvict(room) ==
  /\ heap' = [heap EXCEPT ![room].serverConn = NoConn]
  /\ calls' = NoCalls
  /\ UNCHANGED rooms

\* Faulty variant: rooms.delete(this.id) is not commented out.
serverOnClose_DeleteRoom(room) ==
  LET clients == {heap[room].clientConns[k] : k \in DOMAIN heap[room].clientConns}
  IN /\ heap' = [heap EXCEPT ![room].serverConn = NoConn,
                             ![room].clientConns = <<>>]
     /\ calls' = [c \in Conns |->
                    IF c \in clients THEN <<CloseCall>> ELSE <<>>]
     /\ rooms' = MapDelete(rooms, heap[room].id)

\* Faulty variant: the guests of all rooms are kept in one shared map, so a
\* host's close evicts the guests of every room.
serverOnClose_SharedGuests(room) ==
  LET clients == {heap[q].clientConns[k] :
                    <<q, k>> \in {x \in (1..Len(heap)) \X (1..ClientUUID(MaxConns)) :
                                    x[2] \in DOMAIN heap[x[1]].clientConns}}
  IN /\ heap' = [q \in 1..Len(heap) |->
                   IF q = room
                     THEN [heap[q] EXCEPT !.serverConn = NoConn,
                                          !.clientConns = <<>>]
                     ELSE [heap[q] EXCEPT !.clientConns = <<>>]]
     /\ calls' = [c \in Conns |->
                    IF c \in clients THEN <<CloseCall>> ELSE <<>>]
     /\ UNCHANGED rooms

\* Faulty variant: the guests are evicted and the host slot is not cleared.
serverOnClose_KeepSlot(room) ==
  LET clients == {heap[room].clientConns[k] : k \in DOMAIN heap[room].clientConns}
  IN /\ heap' = [heap EXCEPT ![room].clientConns = <<>>]
     /\ calls' = [c \in Conns |->
                    IF c \in clients THEN <<CloseCall>> ELSE <<>>]
     /\ UNCHANGED rooms

\* ws.onclose of handleServerConn
serverOnClose(room) ==
  LET clients == {heap[room].clientConns[k] : k \in DOMAIN heap[room].clientConns}
  IN /\ heap' = [heap EXCEPT ![room].serverConn = NoConn,
                             ![room].clientConns = <<>>]
     /\ calls' = [c \in Conns |->
                    IF c \in clients THEN <<CloseCall>> ELSE <<>>]
     /\ UNCHANGED rooms

\* Faulty variant: a text that does not parse is passed on to the host as it is.
clientOnMessage_ForwardRaw(room, clientId, data) ==
  LET p == JSONparse(data) IN
  IF p.ok THEN sendMessageToServer(room, clientId, p.val)
  ELSE IF heap[room].serverConn = NoConn THEN calls' = NoCalls
  ELSE calls' = WsSend(NoCalls, heap[room].serverConn, data)

\* ws.onmessage of handleClientConn; the catch block only logs.
clientOnMessage(room, clientId, data) ==
  LET p == JSONparse(data) IN
  IF ~p.ok THEN calls' = NoCalls
           ELSE sendMessageToServer(room, clientId, p.val)

\* Faulty variant: this.clientConns.clear() for this.clientConns.delete(clientId).
clientOnClose_Clear(room, clientId) ==
  heap' = [heap EXCEPT ![room].clientConns = <<>>]

\* ws.onclose of handleClientConn
clientOnClose(room, clientId) ==
  heap' = [heap EXCEPT ![room].clientConns = MapDelete(@, clientId)]

\* Faulty variant: no check of the host slot; the newcomer replaces the host.
handleServerConn_Overwrite(room, ws) ==
  /\ heap' = [heap EXCEPT ![room].serverConn = ws]
  /\ handlers' = [handlers EXCEPT ![ws] = ServerHandlers(room)]
  /\ calls' = NoCalls

\* Faulty variant: the rejected socket is closed before the error is sent.
handleServerConn_CloseFirst(room, ws) ==
  IF heap[room].serverConn # NoConn
    THEN /\ calls' = WsSend(WsClose(NoCalls, ws), ws, JSONstringify(ErrorObj))
         /\ UNCHANGED <<heap, handlers>>
    ELSE /\ heap' = [heap EXCEPT ![room].serverConn = ws]
         /\ handlers' = [handlers EXCEPT ![ws] = ServerHandlers(room)]
         /\ calls' = NoCalls

\* Faulty variant: the handlers are assigned before the host slot is checked,
\* so a rejected socket has them too.
handleServerConn_WireFirst(room, ws) ==
  IF heap[room].serverConn # NoConn
    THEN /\ calls' = WsClose(WsSend(NoCalls, ws, JSONstringify(ErrorObj)), ws)
         /\ handlers' = [handlers EXCEPT ![ws] = ServerHandlers(room)]
         /\ UNCHANGED heap
    ELSE /\ heap' = [heap EXCEPT ![room].serverConn = ws]
         /\ handlers' = [handlers EXCEPT ![ws] = ServerHandlers(room)]
         /\ calls' = NoCalls

\* Faulty variant: a new host starts with an empty guests mapping.
handleServerConn_ResetGuests(room, ws) ==
  IF heap[room].serverConn # NoConn
    THEN /\ calls' = WsClose(WsSend(NoCalls, ws, JSONstringify(ErrorObj)), ws)
         /\ UNCHANGED <<heap, handlers>>
    ELSE /\ heap' = [heap EXCEPT ![room].serverConn = ws,
                                 ![room].clientConns = <<>>]
         /\ handlers' = [handlers EXCEPT ![ws] = ServerHandlers(room)]
         /\ calls' = NoCalls

\* Room.handleServerConn(ws)
handleServerConn(room, ws) ==
  IF heap[room].serverConn # NoConn
    THEN /\ calls' = WsClose(WsSend(NoCalls, ws, JSONstringify(ErrorObj)), ws)
         /\ UNCHANGED <<heap, handlers>>
    ELSE /\ heap' = [heap EXCEPT ![room].serverConn = ws]
         /\ handlers' = [handlers EXCEPT ![ws] = ServerHandlers(room)]
         /\ calls' = NoCalls

\* Faulty variant: the guest id is the guest's rank in the room, not a fresh value.
handleClientConn_RankId(room, ws) ==
  LET clientId == ClientUUID(Cardinality(DOMAIN heap[room].clientConns) + 1)
  IN /\ heap' = [heap EXCEPT ![room].clientConns = MapSet(@, clientId, ws)]
     /\ handlers' = [handlers EXCEPT ![ws] = ClientHandlers(room, clientId)]
     /\ calls' = NoCalls

\* Room.handleClientConn(ws)
handleClientConn(room, ws) ==
  LET clientId == ClientUUID(ws)
  IN /\ heap' = [heap EXCEPT ![room].clientConns = MapSet(@, clientId, ws)]
     /\ handlers' = [handlers EXCEPT ![ws] = ClientHandlers(room, clientId)]
     /\ calls' = NoCalls

\* Faulty variant: the role is not validated; what is not "client" is taken
\* for "server".
handleWebSocketStatus_AnyRole(roomId, role) ==
  IF roomId = 0 \/ role = "" THEN 400
  ELSE IF roomId \notin DOMAIN rooms THEN 404
  ELSE 101

\* The status of the Response handleWebSocket(req) returns for the query
\* parameters roomId and role (0 and "" when missing); 101 is the response
\* of Deno.upgradeWebSocket.
handleWebSocketStatus(roomId, role) ==
  IF roomId = 0 \/ role = "" THEN 400
  ELSE IF role # "client" /\ role # "server" THEN 400
  ELSE IF roomId \notin DOMAIN rooms THEN 404
  ELSE 101

\* handleWebSocket(req); ws is the socket Deno.upgradeWebSocket creates when
\* the request gets that far.
handleWebSocket(ws, roomId, role) ==
  IF handleWebSocketStatus(roomId, role) # 101
    THEN /\ calls' = NoCalls
         /\ UNCHANGED <<heap, handlers, nconns>>
    ELSE /\ nconns' = ws
         /\ IF role = "client" THEN handleClientConn(rooms[roomId], ws)
                               ELSE handleServerConn(rooms[roomId], ws)

----------------------------------------------------------------------------
(* The requests and socket events the platform delivers *)

\* The query parameters of a GET /ws request: a room id (0: missing) and a
\* role ("": missing).
Requests ==
  ((DOMAIN rooms \cup {UnknownId}) \X {"client", "server", "admin"})
    \cup {<<0, "server">>}
    \cup ((DOMAIN rooms) \X {""})

\* The texts a peer sends: an unparsable one, null, and objects with a
\* payload field and, or not, a clientID field: falsy, the id of a guest, or
\* (the ClientUUID of a host's socket) an id no guest has.  Peers do not
\* write their objects the way JSON.stringify does, but for one.
FooValues == {1}
ClientIDValues == {Falsy} \cup {ClientUUID(ws) : ws \in 1..nconns}
Objects ==
  {[foo |-> f] : f \in FooValues}
    \cup {[foo |-> f, clientID |-> id] : f \in FooValues, id \in ClientIDValues}
Texts ==
  {Garbage, Text(JsonNull, TRUE), Text(Obj([foo |-> 1]), TRUE)}
    \cup {Text(Obj(o), FALSE) : o \in Objects}

\* A socket that exists and whose close event is still to come.
Live(ws) == ws <= nconns /\ ~closeFired[ws]

\* GET /ws
Join ==
  /\ \E req \in Requests :
       LET ws == nconns + 1
           roomId == req[1]
           role == req[2]
       IN /\ handleWebSocketStatus(roomId, role) = 101
               => nconns < MaxConns /\ Len(created) + nconns < MaxObjects
          /\ handleWebSocket(ws, roomId, role)
          /\ ev' = Event("join", ws, roomId, role, Garbage,
                          handleWebSocketStatus(roomId, role))
  /\ UNCHANGED <<rooms, created, closeFired>>

\* A message event on a socket.
Message(ws, data) ==
  /\ Live(ws)
  /\ ev' = Event("message", ws, 0, "", data, 0)
  /\ UNCHANGED <<rooms, heap, created, nconns, handlers, closeFired>>

ServerMessage ==
  \E ws \in Conns, data \in Texts :
    /\ handlers[ws].kind = "server"
    /\ Message(ws, data)
    /\ serverOnMessage(handlers[ws].room, data)

ClientMessage ==
  \E ws \in Conns, data \in Texts :
    /\ handlers[ws].kind = "client"
    /\ Message(ws, data)
    /\ clientOnMessage(handlers[ws].room, handlers[ws].clientId, data)

\* A message on a socket the relay assigned no onmessage to.
UnwiredMessage ==
  \E ws \in Conns, data \in Texts :
    /\ handlers[ws].kind = "none"
    /\ Message(ws, data)
    /\ calls' = NoCalls

\* The close event of a socket: dispatched once.
Close(ws) ==
  /\ Live(ws)
  /\ closeFired' = [closeFired EXCEPT ![ws] = TRUE]
  /\ ev' = Event("close", ws, 0, "", Garbage, 0)
  /\ UNCHANGED <<created, nconns, handlers>>

ServerClose ==
  \E ws \in Conns :
    /\ handlers[ws].kind = "server"
    /\ Close(ws)
    /\ serverOnClose(handlers[ws].room)

ClientClose ==
  \E ws \in Conns :
    /\ handlers[ws].kind = "client"
    /\ Close(ws)
    /\ clientOnClose(handlers[ws].room, handlers[ws].clientId)
    /\ calls' = NoCalls
    /\ UNCHANGED rooms

\* The close event of a socket the relay assigned no onclose to.
UnwiredClose ==
  \E ws \in Conns :
    /\ handlers[ws].kind = "none"
    /\ Close(ws)
    /\ calls' = NoCalls
    /\ UNCHANGED <<rooms, heap>>

Next ==
  \/ handleCreateRoom
  \/ Join
  \/ ServerMessage
  \/ ClientMessage
  \/ UnwiredMessage
  \/ ServerClose
  \/ ClientClose
  \/ UnwiredClose

Spec == Init /\ [][Next]_vars

----------------------------------------------------------------------------
(* Vocabulary of the properties *)

RoomRefs == 1..Len(heap)
Sockets == 1..nconns

\* The step handles a message / close event of a socket whose handlers are
\* those of handleServerConn or of handleClientConn.
HostMessageStep == ev'.kind = "message" /\ handlers[ev'.conn].kind = "server"
GuestMessageStep == ev'.kind = "message" /\ handlers[ev'.conn].kind = "client"
HostCloseStep == ev'.kind = "close" /\ handlers[ev'.conn].kind = "server"
GuestCloseStep == ev'.kind = "close" /\ handlers[ev'.conn].kind = "client"

\* The step handles a join that reaches handleServerConn / handleClientConn.
HostAttachStep ==
  ev'.kind = "join" /\ ev'.status = 101 /\ ev'.role = "server"
GuestAttachStep ==
  ev'.kind = "join" /\ ev'.status = 101 /\ ev'.role = "client"
\* ... and the host attach finds the slot of its room occupied.
HostConflictStep ==
  HostAttachStep /\ heap[rooms[ev'.roomId]].serverConn # NoConn

\* The calls of the step are exactly calls cs on socket ws.
OnlyCalls(ws, cs) ==
  calls' = [c \in Conns |-> IF c = ws THEN cs ELSE <<>>]

\* The fields a parsed value carries (a value that is no object has none).
Fields(v) == IF v.t = "obj" THEN v.o ELSE <<>>

----------------------------------------------------------------------------
(* C1 *)

\* The sockets whose host-side handlers can still run for room r.
LiveHosts(r) ==
  {ws \in Sockets : handlers[ws] = ServerHandlers(r) /\ ~closeFired[ws]}

C1_SlotInv ==
  \A r \in RoomRefs :
    /\ heap[r].serverConn \in Sockets \cup {NoConn}
    /\ LiveHosts(r) = {heap[r].serverConn} \ {NoConn}

C1_RejectStep ==
  HostConflictStep =>
    LET r == rooms[ev'.roomId] IN
    /\ heap'[r].serverConn = heap[r].serverConn
    /\ heap'[r].serverConn # ev'.conn
    /\ handlers'[heap[r].serverConn] = ServerHandlers(r)
    /\ handlers'[ev'.conn] = NoHandlers
    /\ calls'[heap[r].serverConn] = <<>>

\* C1: a room has at most one host: the sockets whose host-side handlers
\* (guest routing, guest eviction) can run for a room are exactly the socket
\* in its host slot, if any; and a host attach that finds the slot occupied
\* is rejected: the slot keeps the original socket, which keeps its handlers
\* and has nothing sent to it or closed, and the newcomer gets no handlers.
C1_AtMostOneHost == [](C1_SlotInv) /\ [][C1_RejectStep]_vars

\* A host attach was just rejected in a room whose host has a guest.
C1_Witness ==
  /\ ev.kind = "join" /\ ev.status = 101 /\ ev.role = "server"
  /\ LET r == rooms[ev.roomId] IN
     /\ heap[r].serverConn \notin {NoConn, ev.conn}
     /\ handlers[ev.conn] = NoHandlers
     /\ DOMAIN heap[r].clientConns # {}

----------------------------------------------------------------------------
(* C2 *)

C2_RejectStep ==
  HostConflictStep =>
    /\ \E data \in {JSONstringify(ErrorObj)} :
         OnlyCalls(ev'.conn, <<SendCall(data), CloseCall>>)
    /\ JSONparse(calls'[ev'.conn][1].data) = [ok |-> TRUE, val |-> ErrorObj]
    /\ handlers' = handlers
    /\ handlers'[ev'.conn] = NoHandlers
    /\ heap' = heap

C2_UnwiredStep ==
  /\ (ev'.kind \in {"message", "close"} /\ handlers[ev'.conn] = NoHandlers)
       => (heap' = heap /\ calls' = NoCalls)
  /\ \A ws \in Sockets : handlers'[ws] = handlers[ws]

\* C2: a host attach to a room whose slot is occupied makes exactly two
\* calls, both on the rejected socket: one send of the error message, then
\* close.  The socket gets no handlers, then or later, so its later message
\* and close events change no room and cause no call; the rejection leaves
\* every room's host slot and guests mapping as they were.
C2_HostConflict == [][C2_RejectStep /\ C2_UnwiredStep]_vars

\* A host attach was just rejected (one send, then close) in a room that
\* has guests.
C2_Witness ==
  /\ ev.kind = "join" /\ ev.role = "server"
  /\ Len(calls[ev.conn]) = 2
  /\ calls[ev.conn][1].op = "send" /\ calls[ev.conn][2].op = "close"
  /\ DOMAIN heap[rooms[ev.roomId]].clientConns # {}

----------------------------------------------------------------------------
(* C3 *)

\* Socket ws is attached as guest id of room r.
AttachedGuest(r, id, ws) ==
  id \in DOMAIN heap[r].clientConns /\ heap[r].clientConns[id] = ws

\* Value out is value v with the clientID field set to id.
Tagged(out, v, id) ==
  /\ out.t = "obj"
  /\ DOMAIN out.o = DOMAIN Fields(v) \cup {"clientID"}
  /\ out.o.clientID = id
  /\ \A k \in DOMAIN Fields(v) \ {"clientID"} : out.o[k] = Fields(v)[k]

C3_Step ==
  (/\ GuestMessageStep
   /\ JSONparse(ev'.data).ok
   /\ AttachedGuest(handlers[ev'.conn].room, handlers[ev'.conn].clientId,
                    ev'.conn)
   /\ heap[handlers[ev'.conn].room].serverConn # NoConn)
  => LET r == handlers[ev'.conn].room
         host == heap[r].serverConn
     IN /\ \A c \in Conns \ {host} : calls'[c] = <<>>
        /\ Len(calls'[host]) = 1
        /\ calls'[host][1].op = "send"
        /\ JSONparse(calls'[host][1].data).ok
        /\ Tagged(JSONparse(calls'[host][1].data).val,
                  JSONparse(ev'.data).val, handlers[ev'.conn].clientId)

\* C3: when an attached guest G of a room with a host sends a parsable
\* text, the step makes exactly one call: a send, to the host of G's room,
\* of a text that parses to the fields of the guest's message with clientID
\* set to G's relay-assigned id, whatever clientID the guest wrote (a message
\* that is no object carries no fields).  No other socket, of any room, is
\* sent anything.
C3_GuestToHost == [][C3_Step]_vars

\* A guest's message that names another id as clientID was just forwarded
\* to its host, while another guest is attached.
C3_Witness ==
  /\ ev.kind = "message" /\ handlers[ev.conn].kind = "client"
  /\ JSONparse(ev.data).ok
  /\ HasClientID(JSONparse(ev.data).val)
  /\ JSONparse(ev.data).val.o.clientID # handlers[ev.conn].clientId
  /\ LET r == handlers[ev.conn].room IN
     /\ heap[r].serverConn # NoConn
     /\ Len(calls[heap[r].serverConn]) = 1
     /\ Cardinality(DOMAIN heap[r].clientConns) >= 2

----------------------------------------------------------------------------
(* C4 *)

C4_Step ==
  (/\ HostMessageStep
   /\ JSONparse(ev'.data).ok
   /\ HasClientID(JSONparse(ev'.data).val))
  => LET r == handlers[ev'.conn].room
         G == JSONparse(ev'.data).val.o.clientID
     IN IF G \in DOMAIN heap[r].clientConns
          THEN LET guest == heap[r].clientConns[G] IN
               /\ \A c \in Conns \ {guest} : calls'[c] = <<>>
               /\ Len(calls'[guest]) = 1
               /\ calls'[guest][1].op = "send"
               /\ JSONparse(calls'[guest][1].data) = JSONparse(ev'.data)
          ELSE calls' = NoCalls

\* C4: when the host sends a parsable object carrying clientID G, and G is
\* a key of the guests mapping of its room, the step makes exactly one call:
\* a send, to the socket mapped under G, of a text that parses to the very
\* value the host's text parses to; if G is no key of that mapping the step
\* makes no call at all, on the host or on anyone.
C4_HostToGuest == [][C4_Step]_vars

\* A host message was just delivered to one of two guests of its room.
C4_Witness ==
  /\ ev.kind = "message" /\ handlers[ev.conn].kind = "server"
  /\ JSONparse(ev.data).ok /\ ~ev.data.compact
  /\ LET r == handlers[ev.conn].room IN
     /\ Cardinality(DOMAIN heap[r].clientConns) >= 2
     /\ \E id \in DOMAIN heap[r].clientConns :
          Len(calls[heap[r].clientConns[id]]) = 1

----------------------------------------------------------------------------
(* C5 *)

C5_Step ==
  (HostCloseStep /\ heap[handlers[ev'.conn].room].serverConn = ev'.conn)
  => LET r == handlers[ev'.conn].room IN
     /\ heap'[r].serverConn = NoConn
     /\ heap'[r].clientConns = <<>>
     /\ \A id \in DOMAIN heap[r].clientConns :
          calls'[heap[r].clientConns[id]] = <<CloseCall>>

\* C5: the step that handles the close event of a room's attached host
\* leaves the host slot empty and the guests mapping empty, and calls
\* close() on every socket that was in the guests mapping before the step.
C5_HostCloseCascade == [][C5_Step]_vars

\* A host close just evicted two guests.
C5_Witness ==
  /\ ev.kind = "close" /\ handlers[ev.conn].kind = "server"
  /\ heap[handlers[ev.conn].room].clientConns = <<>>
  /\ Cardinality({c \in Sockets : calls[c] = <<CloseCall>>}) >= 2

----------------------------------------------------------------------------
(* C6 *)

C6_CloseStep ==
  (/\ GuestCloseStep
   /\ AttachedGuest(handlers[ev'.conn].room, handlers[ev'.conn].clientId,
                    ev'.conn))
  => LET r == handlers[ev'.conn].room
         G1 == handlers[ev'.conn].clientId
     IN /\ DOMAIN heap'[r].clientConns = DOMAIN heap[r].clientConns \ {G1}
        /\ \A k \in DOMAIN heap'[r].clientConns :
             heap'[r].clientConns[k] = heap[r].clientConns[k]
        /\ heap'[r].serverConn = heap[r].serverConn
        /\ \A q \in RoomRefs \ {r} : heap'[q] = heap[q]
        /\ handlers' = handlers
        /\ calls' = NoCalls

C6_UnroutableStep ==
  (/\ HostMessageStep
   /\ JSONparse(ev'.data).ok
   /\ HasClientID(JSONparse(ev'.data).val)
   /\ \E c \in Sockets :
        /\ handlers[c].kind = "client" /\ closeFired[c]
        /\ handlers[c].clientId = JSONparse(ev'.data).val.o.clientID)
  => calls' = NoCalls

\* C6: the step that handles the close event of attached guest G1 removes
\* G1's key from the guests mapping of its room and nothing else: the other
\* entries, the host slot, every other room and every socket's handlers are
\* as before, and no send or close call is made.  A host message that names
\* the id of a guest whose close event was handled causes no call.
C6_GuestCloseIsolation == [][C6_CloseStep /\ C6_UnroutableStep]_vars

\* The close event of a guest was just handled in a room that keeps its
\* host and another guest.
C6_Witness ==
  /\ ev.kind = "close" /\ handlers[ev.conn].kind = "client"
  /\ LET r == handlers[ev.conn].room IN
     /\ heap[r].serverConn # NoConn
     /\ DOMAIN heap[r].clientConns # {}
     /\ handlers[ev.conn].clientId \notin DOMAIN heap[r].clientConns

----------------------------------------------------------------------------
(* C7 *)

C7_Step ==
  (/\ ev'.kind = "message"
   /\ handlers[ev'.conn].kind \in {"server", "client"}
   /\ ~JSONparse(ev'.data).ok)
  => /\ calls' = NoCalls
     /\ heap' = heap
     /\ rooms' = rooms
     /\ handlers' = handlers
     /\ closeFired' = closeFired

\* C7: the step that handles a text that does not parse, from a socket with
\* host or guest handlers, makes no call (no close of the sender, no send to
\* anyone) and leaves the rooms, the handlers of every socket and the set of
\* sockets that can still deliver events as they were, so that the sender's
\* next message is handled as if the malformed one had not been sent.
C7_MalformedDropped == [][C7_Step]_vars

\* A text that does not parse was just handled, sent by the host of a room
\* that has a guest.
C7_Witness ==
  /\ ev.kind = "message" /\ ev.data = Garbage
  /\ handlers[ev.conn].kind = "server"
  /\ heap[handlers[ev.conn].room].serverConn = ev.conn
  /\ DOMAIN heap[handlers[ev.conn].room].clientConns # {}

----------------------------------------------------------------------------
(* C8 *)

C8_Inv ==
  \A i, j \in DOMAIN created : i # j => created[i] # created[j]

C8_Step ==
  ev'.kind = "createRoom" =>
    /\ ev'.roomId \notin DOMAIN rooms
    /\ created' = Append(created, ev'.roomId)
    /\ \A id \in DOMAIN rooms : id \in DOMAIN rooms' /\ rooms'[id] = rooms[id]

\* C8: the ids the create-room calls returned are pairwise distinct, and a
\* create-room call stores its room under an id that was not in the
\* registry, leaving every registry entry that was there as it was.
C8_RoomIdsDistinct == [](C8_Inv) /\ [][C8_Step]_vars

\* Two create-room calls have returned.
C8_Witness == Len(created) >= 2 /\ ev.kind = "createRoom"

----------------------------------------------------------------------------
(* C9 *)

C9_Inv ==
  \A i \in DOMAIN created :
    /\ created[i] \in DOMAIN rooms
    /\ heap[rooms[created[i]]].id = created[i]

C9_Step ==
  /\ \A id \in DOMAIN rooms : id \in DOMAIN rooms' /\ rooms'[id] = rooms[id]
  /\ \A r \in RoomRefs : heap'[r].id = heap[r].id
  /\ (ev'.kind = "join" /\ \E i \in DOMAIN created : created[i] = ev'.roomId)
       => ev'.status # 404

\* C9: every id a create-room call returned is in the registry, mapped to
\* the Room constructed with that id; no step removes a registry entry or
\* maps an id to another Room; and a join that names a returned id never
\* gets the not-found response.
C9_RegistryPersistence == [](C9_Inv) /\ [][C9_Step]_vars

\* A join was just accepted into a room whose host had closed before.
C9_Witness ==
  /\ ev.kind = "join" /\ ev.status = 101
  /\ \E c \in Sockets :
       handlers[c] = ServerHandlers(rooms[ev.roomId]) /\ closeFired[c]

----------------------------------------------------------------------------
(* C10 *)

C10_Inv ==
  \A r \in RoomRefs :
    \A k1, k2 \in DOMAIN heap[r].clientConns :
      /\ handlers[heap[r].clientConns[k1]] = ClientHandlers(r, k1)
      /\ heap[r].clientConns[k1] = heap[r].clientConns[k2] => k1 = k2

C10_Step ==
  /\ GuestAttachStep =>
       LET r == rooms[ev'.roomId] IN
       \E id \in DOMAIN heap'[r].clientConns \ DOMAIN heap[r].clientConns :
         /\ DOMAIN heap'[r].clientConns = DOMAIN heap[r].clientConns \cup {id}
         /\ heap'[r].clientConns[id] = ev'.conn
  /\ \A r \in RoomRefs :
       \A k \in DOMAIN heap[r].clientConns \cap DOMAIN heap'[r].clientConns :
         heap'[r].clientConns[k] = heap[r].clientConns[k]

\* C10: the guests of a room are stored under distinct ids: a guest attach
\* stores the new socket under an id that was no key of the room's guests
\* mapping and keeps every entry that was there; a socket is stored under
\* one key only, the id its handlers were given; and while a key stays in
\* the mapping it stays mapped to the same socket.
C10_GuestIdScoping == [](C10_Inv) /\ [][C10_Step]_vars

\* A guest was just attached to a room that already had a guest.
C10_Witness ==
  /\ ev.kind = "join" /\ ev.status = 101 /\ ev.role = "client"
  /\ Cardinality(DOMAIN heap[rooms[ev.roomId]].clientConns) >= 2

----------------------------------------------------------------------------
(* C11 *)

JoinStep == ev'.kind = "join"
Recognized(role) == role \in {"client", "server"}

\* A failing join touches nothing.
C11_Untouched ==
  (JoinStep /\ ev'.status # 101) =>
    /\ heap' = heap
    /\ rooms' = rooms
    /\ handlers' = handlers
    /\ nconns' = nconns
    /\ calls' = NoCalls

\* C11 as stated: every join that names a room id not in the registry gets the
\* not-found response, every join whose role is not recognized gets the
\* bad-request response, and a failing join changes no room and no registry
\* entry.
C11_AsStated ==
  [][/\ (JoinStep /\ ev'.roomId # 0 /\ ev'.roomId \notin DOMAIN rooms)
          => ev'.status = 404
     /\ (JoinStep /\ ~Recognized(ev'.role)) => ev'.status = 400
     /\ C11_Untouched]_vars

C11_Step ==
  /\ (JoinStep /\ ~Recognized(ev'.role)) => ev'.status = 400
  /\ (JoinStep /\ ev'.roomId = 0) => ev'.status = 400
  /\ (JoinStep /\ Recognized(ev'.role) /\ ev'.roomId # 0
        /\ ev'.roomId \notin DOMAIN rooms) => ev'.status = 404
  /\ (JoinStep /\ Recognized(ev'.role) /\ ev'.roomId \in DOMAIN rooms)
       => ev'.status = 101
  /\ C11_Untouched

\* C11, amended: every join whose role is missing or not recognized, or
\* whose room id is missing, gets the bad-request response, whether its room
\* id is in the registry or not; every join with a recognized role and a
\* room id that is not in the registry gets the not-found response; every
\* other join is accepted; and a failing join changes no room, no registry
\* entry and no socket, and makes no call.
C11_JoinValidation == [][C11_Step]_vars

\* A join naming an unknown room was just refused as not found, while a
\* room with a host and a guest exists.
C11_Witness ==
  /\ ev.kind = "join" /\ ev.status = 404
  /\ \E r \in RoomRefs :
       heap[r].serverConn # NoConn /\ DOMAIN heap[r].clientConns # {}

----------------------------------------------------------------------------
(* C12 *)

\* The places that reference socket ws: the host slot of a room, or a key of
\* the guests mapping of a room.
References(ws) ==
  {<<r, "host", 0>> : r \in {q \in RoomRefs : heap[q].serverConn = ws}}
    \cup {<<x[1], "guest", x[2]>> :
            x \in {y \in RoomRefs \X (1..ClientUUID(MaxConns)) :
                     /\ y[2] \in DOMAIN heap[y[1]].clientConns
                     /\ heap[y[1]].clientConns[y[2]] = ws}}

C12_Inv == \A ws \in Sockets : Cardinality(References(ws)) <= 1

\* The room that handles the event of the step, 0 if no room does.
HandlingRoom ==
  IF ev'.kind = "join" /\ ev'.status = 101 THEN rooms[ev'.roomId]
  ELSE IF ev'.kind \in {"message", "close"} THEN handlers[ev'.conn].room
  ELSE 0

\* Socket c is a socket of room q: it is referenced by q or has handlers
\* that q gave it.
SocketOf(c, q) ==
  \/ \E x \in References(c) : x[1] = q
  \/ handlers[c].kind # "none" /\ handlers[c].room = q

C12_Step ==
  HandlingRoom # 0 =>
    \A q \in RoomRefs \ {HandlingRoom} :
      /\ heap'[q] = heap[q]
      /\ \A c \in Sockets : SocketOf(c, q) => calls'[c] = <<>>

\* C12: every socket is referenced from at most one place, the host slot of
\* one room or one key of the guests mapping of one room; and a step in which
\* a room handles an attach, a message or a close leaves every other room as
\* it was and makes no send or close call on a socket of another room.
C12_RoomIndependence == [](C12_Inv) /\ [][C12_Step]_vars

\* A host's close was just handled in one room while another room has a
\* guest.
C12_Witness ==
  /\ ev.kind = "close" /\ handlers[ev.conn].kind = "server"
  /\ \E q \in RoomRefs \ {handlers[ev.conn].room} :
       DOMAIN heap[q].clientConns # {}

----------------------------------------------------------------------------
(* C13 *)

C13_DropStep ==
  (/\ GuestMessageStep
   /\ JSONparse(ev'.data).ok
   /\ heap[handlers[ev'.conn].room].serverConn = NoConn)
  => /\ calls' = NoCalls
     /\ heap' = heap
     /\ rooms' = rooms
     /\ handlers' = handlers
     /\ closeFired' = closeFired

\* Whatever a step sends to a socket with host handlers is the message that
\* very step handles, tagged; an attach sends the new host nothing.
C13_NoReplayStep ==
  \A c \in Conns :
    (calls'[c] # <<>> /\ handlers'[c].kind = "server")
      => /\ GuestMessageStep
         /\ JSONparse(ev'.data).ok
         /\ Len(calls'[c]) = 1
         /\ calls'[c][1].op = "send"
         /\ Tagged(JSONparse(calls'[c][1].data).val, JSONparse(ev'.data).val,
                   handlers[ev'.conn].clientId)

\* C13: a parsable guest message handled while the host slot of its room is
\* empty causes no call, on the guest or on anyone, and changes no room, no
\* handler and no socket: nothing keeps it.  A host only ever receives the
\* message of the step that is being handled, so a host that attaches later
\* does not receive the dropped one.
C13_NoHostDrop == [][C13_DropStep /\ C13_NoReplayStep]_vars

\* A parsable message of an attached guest was just dropped for want of a
\* host.
C13_Witness ==
  /\ ev.kind = "message" /\ handlers[ev.conn].kind = "client"
  /\ JSONparse(ev.data).ok
  /\ heap[handlers[ev.conn].room].serverConn = NoConn
  /\ AttachedGuest(handlers[ev.conn].room, handlers[ev.conn].clientId, ev.conn)
  /\ calls = NoCalls

----------------------------------------------------------------------------
(* C14 *)

C14_Step ==
  /\ ev'.kind = "createRoom" =>
       /\ Len(heap') = Len(heap) + 1
       /\ heap'[rooms'[ev'.roomId]].serverConn = NoConn
  /\ HostCloseStep => heap'[handlers[ev'.conn].room].serverConn = NoConn
  /\ (HostAttachStep /\ heap[rooms[ev'.roomId]].serverConn = NoConn) =>
       /\ heap'[rooms[ev'.roomId]].serverConn = ev'.conn
       /\ handlers'[ev'.conn] = ServerHandlers(rooms[ev'.roomId])
       /\ calls' = NoCalls

\* C14: a room is constructed with an empty host slot; the step that
\* handles a host's close event leaves the slot of its room empty; and a
\* host attach that finds the slot empty succeeds: the new socket is in the
\* slot and has the host handlers.
C14_RoomReentry == [][C14_Step]_vars

\* Empty -> Active -> Empty -> Active: a host was just attached to a room
\* whose former host has closed.
C14_Witness ==
  /\ ev.kind = "join" /\ ev.status = 101 /\ ev.role = "server"
  /\ heap[rooms[ev.roomId]].serverConn = ev.conn
  /\ \E c \in Sockets \ {ev.conn} :
       handlers[c] = ServerHandlers(rooms[ev.roomId]) /\ closeFired[c]

----------------------------------------------------------------------------
(* C15 *)

C15_Step ==
  (/\ HostMessageStep
   /\ JSONparse(ev'.data).ok
   /\ ~HasClientID(JSONparse(ev'.data).val))
  => /\ calls' = NoCalls
     /\ heap' = heap
     /\ rooms' = rooms
     /\ handlers' = handlers
     /\ closeFired' = closeFired

\* C15: a parsable host message that carries no clientID causes no call (no
\* send to a guest, no send to the host, no close) and changes no room, no
\* handler and no socket.
C15_MissingTarget == [][C15_Step]_vars

\* A host message without clientID was just dropped in a room with a guest.
C15_Witness ==
  /\ ev.kind = "message" /\ handlers[ev.conn].kind = "server"
  /\ JSONparse(ev.data).ok
  /\ JSONparse(ev.data).val.t = "obj"
  /\ ~HasClientID(JSONparse(ev.data).val)
  /\ DOMAIN heap[handlers[ev.conn].room].clientConns # {}

----------------------------------------------------------------------------
(* C16 *)

C16_Step ==
  (/\ GuestCloseStep
   /\ handlers[ev'.conn].clientId
        \notin DOMAIN heap[handlers[ev'.conn].room].clientConns)
  => /\ heap' = heap
     /\ rooms' = rooms
     /\ handlers' = handlers
     /\ calls' = NoCalls

\* C16: the step that handles the close event of a guest whose id is no
\* longer a key of the guests mapping (the host's close evicted it before)
\* changes no room and makes no call; the guests attached since are still
\* there.
C16_GuestCloseIdempotent == [][C16_Step]_vars

\* The close event of an evicted guest was just handled in a room to which
\* another guest was attached after the eviction.
C16_Witness ==
  /\ ev.kind = "close" /\ handlers[ev.conn].kind = "client"
  /\ LET r == handlers[ev.conn].room IN
     /\ \E h \in Sockets : handlers[h] = ServerHandlers(r) /\ closeFired[h]
     /\ \E k \in DOMAIN heap[r].clientConns : heap[r].clientConns[k] > ev.conn

----------------------------------------------------------------------------
(* C17 *)

\* The step handles a host message that names the id of guest socket c of
\* the host's room.
HostTargets(c) ==
  /\ HostMessageStep
  /\ JSONparse(ev'.data).ok
  /\ HasClientID(JSONparse(ev'.data).val)
  /\ handlers[c] = ClientHandlers(handlers[ev'.conn].room,
                                  JSONparse(ev'.data).val.o.clientID)

C17_Step ==
  \A c \in Sockets :
    /\ HostTargets(c) =>
         /\ heap' = heap
         /\ \A d \in Conns \ {c} : calls'[d] = <<>>
         /\ AttachedGuest(handlers[c].room, handlers[c].clientId, c)
              => calls'[c] = <<SendCall(JSONstringify(JSONparse(ev'.data).val))>>
         /\ closeFired[c] => calls'[c] = <<>>
    /\ (GuestCloseStep /\ ev'.conn = c) =>
         LET r == handlers[c].room IN
         /\ DOMAIN heap'[r].clientConns
              = DOMAIN heap[r].clientConns \ {handlers[c].clientId}
         /\ \A k \in DOMAIN heap'[r].clientConns :
              heap'[r].clientConns[k] = heap[r].clientConns[k]

\* C17: a host message that names guest G is handled either before the
\* close event of G's socket, and then, G being attached, it is sent to
\* that socket, or after it, and then it is sent to no socket.  In neither
\* case is anything sent to another socket or any room changed, and the
\* close event takes G's entry, and no other, out of the guests mapping.
C17_MessageCloseRace == [][C17_Step]_vars

\* A host message for a guest whose close event came first was just
\* dropped, while another guest of the room is attached.
C17_Witness ==
  /\ ev.kind = "message" /\ handlers[ev.conn].kind = "server"
  /\ JSONparse(ev.data).ok /\ HasClientID(JSONparse(ev.data).val)
  /\ calls = NoCalls
  /\ DOMAIN heap[handlers[ev.conn].room].clientConns # {}
  /\ \E c \in Sockets :
       /\ closeFired[c]
       /\ handlers[c] = ClientHandlers(handlers[ev.conn].room,
                                       JSONparse(ev.data).val.o.clientID)

----------------------------------------------------------------------------
(* C18 *)

\* C18: whatever a step sends to a socket with host handlers carries, as
\* clientID, a key of the guests mapping of that host's room: no message of
\* a guest that a host's close evicted reaches a host attached afterwards.
C18_ForwardedFromMappedGuest ==
  [][\A c \in Conns :
       (/\ handlers'[c].kind = "server"
        /\ calls'[c] # <<>>
        /\ calls'[c][1].op = "send")
       => LET out == JSONparse(calls'[c][1].data).val
          IN /\ HasClientID(out)
             /\ out.o.clientID \in DOMAIN heap[handlers'[c].room].clientConns]_vars

----------------------------------------------------------------------------
(* C19 *)

C19_OwnSlotStep ==
  HostCloseStep => heap[handlers[ev'.conn].room].serverConn = ev'.conn

C19_OtherHostStep ==
  ev'.kind = "close" =>
    \A r \in RoomRefs :
      heap[r].serverConn \notin {NoConn, ev'.conn} =>
        /\ heap'[r].serverConn = heap[r].serverConn
        /\ handlers'[heap[r].serverConn] = ServerHandlers(r)
        /\ \A k \in DOMAIN heap[r].clientConns :
             heap[r].clientConns[k] # ev'.conn =>
               /\ k \in DOMAIN heap'[r].clientConns
               /\ heap'[r].clientConns[k] = heap[r].clientConns[k]
               /\ calls'[heap[r].clientConns[k]] = <<>>

\* C19: when the close handler given to a host socket runs, the host slot
\* of its room holds that socket; and the close event of any other socket
\* (a rejected host, a guest) leaves the slot of a room with an attached
\* host as it is, and that host's guests, but for the closing socket itself,
\* attached and not closed.
C19_HostCloseOwnSlot == [][C19_OwnSlotStep /\ C19_OtherHostStep]_vars

\* The close event of a rejected host socket was just handled while a host
\* with a guest is attached.
C19_Witness ==
  /\ ev.kind = "close" /\ handlers[ev.conn] = NoHandlers
  /\ \E r \in RoomRefs :
       /\ heap[r].serverConn # NoConn
       /\ ~closeFired[heap[r].serverConn]
       /\ DOMAIN heap[r].clientConns # {}

----------------------------------------------------------------------------
(* C20 *)

C20_Step ==
  /\ GuestAttachStep =>
       /\ handlers'[ev'.conn]
            = ClientHandlers(rooms[ev'.roomId], ClientUUID(ev'.conn))
       /\ ClientUUID(ev'.conn) \in DOMAIN heap'[rooms[ev'.roomId]].clientConns
       /\ heap'[rooms[ev'.roomId]].clientConns[ClientUUID(ev'.conn)] = ev'.conn
  /\ \A r \in RoomRefs :
       \A k \in DOMAIN heap[r].clientConns :
         k \notin DOMAIN heap'[r].clientConns =>
           \/ GuestCloseStep /\ ev'.conn = heap[r].clientConns[k]
           \/ HostCloseStep /\ handlers[ev'.conn].room = r
  /\ (HostAttachStep /\ heap[rooms[ev'.roomId]].serverConn = NoConn) =>
       /\ heap'[rooms[ev'.roomId]].clientConns
            = heap[rooms[ev'.roomId]].clientConns
       /\ \A k \in DOMAIN heap[rooms[ev'.roomId]].clientConns :
            /\ handlers'[heap[rooms[ev'.roomId]].clientConns[k]]
                 = ClientHandlers(rooms[ev'.roomId], k)
            /\ calls'[heap[rooms[ev'.roomId]].clientConns[k]] = <<>>

\* C20: a guest attach succeeds whatever the host slot holds, and stores
\* the socket under its id; an entry leaves the guests mapping only in the
\* step that handles the close event of its own socket or of the room's
\* host; and a successful host attach leaves the guests mapping, and the
\* guests' handlers, as they were, so that the routing of C3 and C4 applies
\* between the new host and the guests attached before it.
C20_GuestBeforeHost == [][C20_Step]_vars

\* A host message was just sent to a guest that was attached before the
\* host.
C20_Witness ==
  /\ ev.kind = "message" /\ handlers[ev.conn].kind = "server"
  /\ \E c \in Sockets :
       /\ c < ev.conn
       /\ calls[c] # <<>>
       /\ AttachedGuest(handlers[ev.conn].room, handlers[c].clientId, c)

====
